---- MODULE Spec2Model ----
(***************************************************************************)
(* Model of shared_code/timeseries.py: the type classifier                 *)
(* (get_record_type), the record builder (create_atomic_record) and the    *)
(* recursive flattener (create_record_recursive).                          *)
(*                                                                         *)
(* Python values are records [type, lit, items]: `type` is the runtime     *)
(* type name, `lit` the literal of a scalar, `items` the elements of a     *)
(* list or the ordered <<key, value>> entries of a dict.  An optional      *)
(* argument is <<>> for None and <<x>> for the value x.                    *)
(***************************************************************************)
EXTENDS Integers, Sequences, FiniteSets, TLC

\* ------------------------------------------------------------------ bounds
MaxListLen == 3
MaxEntries == 3

\* ------------------------------------------------------------ Python values
None == <<>>
Some(x) == <<x>>

Scalar(t, l) == [type |-> t, lit |-> l, items |-> <<>>]
PyNone == Scalar("NoneType", "None")
PyList(elems) == [type |-> "list", lit |-> "", items |-> elems]
PyDict(entries) == [type |-> "dict", lit |-> "", items |-> entries]
Entry(k, v) == [key |-> k, value |-> v]

\* the classes an instance of each runtime type is an instance of
Mro(t) ==
  CASE t = "bool" -> {"bool", "int", "object"}
    [] OTHER -> {t, "object"}

IsInstance(v, classes) == Mro(v.type) \cap classes # {}

\* str(x) as an f-string renders it
RECURSIVE JoinStr(_)
Str(v) ==
  IF v.type = "list" THEN "[" \o JoinStr(v.items) \o "]" ELSE v.lit
JoinStr(elems) ==
  IF elems = <<>> THEN ""
  ELSE IF Len(elems) = 1 THEN Str(elems[1])
  ELSE Str(elems[1]) \o ", " \o JoinStr(Tail(elems))

\* bool(x) for the values a payload argument takes
Truthy(v) ==
  CASE v.type = "NoneType" -> FALSE
    [] v.type \in {"dict", "list"} -> v.items # <<>>
    [] OTHER -> TRUE

\* --------------------------------------------------------------- PayloadType
PayloadTypeValue(member) ==
  CASE member = "NUMBER" -> "number"
    [] member = "STRING" -> "string"
    [] member = "BOOLEAN" -> "boolean"
    [] member = "GEOGRAPHY" -> "geography"

\* ----------------------------------------------------------- get_record_type
Returns(member) == [raised |-> FALSE, member |-> member, exc |-> "", msg |-> ""]
Raises(exc, msg) == [raised |-> TRUE, member |-> "", exc |-> exc, msg |-> msg]

IsCoordinatePair(payload) ==
  /\ Len(payload.items) = 2
  /\ \A n \in 1..Len(payload.items) : IsInstance(payload.items[n], {"int", "float"})

\* faulty variant: the numeric test ahead of the boolean one
get_record_type_NumberFirst(payload) ==
  IF IsInstance(payload, {"str"}) THEN Returns("STRING")
  ELSE IF IsInstance(payload, {"int", "float"}) THEN Returns("NUMBER")
  ELSE IF payload.type = "bool" THEN Returns("BOOLEAN")
  ELSE IF IsInstance(payload, {"list"}) THEN
    IF IsCoordinatePair(payload) THEN Returns("GEOGRAPHY")
    ELSE Raises("TypeError", "List is not a valid coordinate pair: " \o Str(payload))
  ELSE Raises("TypeError", "Unknown payload type: " \o payload.type)

get_record_type(payload) ==
  IF IsInstance(payload, {"str"}) THEN Returns("STRING")
  ELSE IF payload.type = "bool" THEN Returns("BOOLEAN")
  ELSE IF IsInstance(payload, {"int", "float"}) THEN Returns("NUMBER")
  ELSE IF IsInstance(payload, {"list"}) THEN
    IF IsCoordinatePair(payload) THEN Returns("GEOGRAPHY")
    ELSE Raises("TypeError", "List is not a valid coordinate pair: " \o Str(payload))
  ELSE Raises("TypeError", "Unknown payload type: " \o payload.type)

\* ------------------------------------------------------ create_atomic_record
\* faulty variant: subject and publisher stored in each other's field
create_atomic_record_Swapped(source_timestamp, subject, publisher, measurement_of, measurement_value, measurement_data_type, corr) ==
  [timestamp |-> source_timestamp,
   measurement_subject |-> publisher,
   measurement_publisher |-> subject,
   measurement_of |-> measurement_of,
   measurement_value |-> measurement_value,
   measurement_data_type |-> PayloadTypeValue(measurement_data_type),
   correlation_id |-> corr]

create_atomic_record(source_timestamp, subject, publisher, measurement_of, measurement_value, measurement_data_type, corr) ==
  [timestamp |-> source_timestamp,
   measurement_subject |-> subject,
   measurement_publisher |-> publisher,
   measurement_of |-> measurement_of,
   measurement_value |-> measurement_value,
   measurement_data_type |-> PayloadTypeValue(measurement_data_type),
   correlation_id |-> corr]

\* ------------------------------------------------------------------ inputs
Keys == {"a", "b", "c"}

PyStr == Scalar("str", "abc")
PyTrue == Scalar("bool", "True")
PyFalse == Scalar("bool", "False")
PyInt == Scalar("int", "42")
PyFloat == Scalar("float", "3.14")
PyObject == Scalar("Sensor", "<Sensor object>")

\* values handed to get_record_type directly
ListElems == {Scalar("float", "1.0"), Scalar("int", "2"), PyTrue, Scalar("str", "'a'"), PyNone}

RECURSIVE SeqsOfLen(_, _)
SeqsOfLen(S, n) ==
  IF n = 0 THEN {<<>>}
  ELSE {<<x>> \o rest : x \in S, rest \in SeqsOfLen(S, n - 1)}

Lists == {PyList(e) : e \in UNION {SeqsOfLen(ListElems, n) : n \in 0..MaxListLen}}

Args ==
  {PyStr, Scalar("str", ""), PyTrue, PyFalse, PyInt, Scalar("int", "0"), PyFloat, PyNone, PyObject, PyDict(<<>>), PyDict(<<Entry("a", PyInt)>>)} \cup Lists

\* leaf values of the sized payloads: two that classify, one that does not
Leaves == {PyTrue, PyInt, PyNone}

BadList == PyList(<<Scalar("int", "1"), Scalar("int", "2"), Scalar("int", "3")>>)

\* the ordered dicts with n entries in all (nested ones counted), top-level keys in `keys`
RECURSIVE DictsOfSize(_, _)
ValuesOfSize(m) ==
  IF m = 1 THEN Leaves \cup {PyDict(<<>>)}
  ELSE {PyDict(d) : d \in DictsOfSize(m - 1, Keys)}
DictsOfSize(n, keys) ==
  IF n = 0 THEN {<<>>}
  ELSE UNION {UNION {{<<Entry(k, v)>> \o rest : v \in ValuesOfSize(m), rest \in DictsOfSize(n - m, keys \ {k})} : m \in 1..n} : k \in keys}

\* one-entry payloads over the leaf shapes the sized payloads leave out
OtherLeaves ==
  {PyStr, PyFloat, PyObject, BadList, PyList(<<Scalar("float", "1.0"), Scalar("float", "2.0")>>), PyList(<<PyTrue, Scalar("int", "2")>>)}

\* {"a": 1, "b": {"c": 2, "d": 3}}, {"loc": {"x": 1}}, and a list that is no
\* coordinate pair inside nested mappings
Examples ==
  {PyDict(<<Entry("a", Scalar("int", "1")), Entry("b", PyDict(<<Entry("c", Scalar("int", "2")), Entry("d", Scalar("int", "3"))>>))>>),
   PyDict(<<Entry("loc", PyDict(<<Entry("x", Scalar("int", "1"))>>))>>),
   PyDict(<<Entry("a", PyInt), Entry("b", PyDict(<<Entry("c", BadList)>>)), Entry("c", PyTrue)>>),
   PyDict(<<Entry("a", PyDict(<<Entry("b", PyDict(<<Entry("c", PyStr), Entry("a", BadList)>>))>>))>>)}

Payloads ==
  {PyNone}
    \cup {PyDict(d) : d \in UNION {DictsOfSize(n, Keys) : n \in 0..MaxEntries}}
    \cup {PyDict(<<Entry("a", v)>>) : v \in OtherLeaves}
    \cup Examples

Prefixes == {None, Some(""), Some("p")}
IgnoreLists == {None, Some(<<"b">>)}

\* a record left in the list by an earlier call
EarlierRecord ==
  create_atomic_record("2024-04-30T09:00:00+00:00", "subj-0", "pub-0", "earlier", PyFloat, "NUMBER", Some("corr-0"))

\* the other arguments: a fresh list with a correlation id, a used list without
Calls ==
  {[records |-> <<>>, timestamp |-> "2024-05-01T10:00:00+00:00", correlation_id |-> Some("corr-1"), publisher |-> "pub-1", subject |-> "subj-1"],
   [records |-> <<EarlierRecord>>, timestamp |-> "2024-05-02T11:30:00+02:00", correlation_id |-> None, publisher |-> "pub-2", subject |-> "subj-2"]}

\* ------------------------------------------------------------------- state
VARIABLES
  call,                   \* the function the caller invokes
  arg,                    \* get_record_type: its argument
  payload,                \* create_record_recursive: its arguments
  records0,               \*   the records list as the caller passed it
  timestamp,
  correlation_id,
  measurement_publisher,
  measurement_subject,
  ignore_keys,
  measurement_of_prefix,
  records,                \* the records list object, shared by every level
  stack,                  \* active create_record_recursive frames, innermost last
  status,                 \* "running" | "returned" | "raised"
  result,                 \* what the outermost call returned, None before
  err                     \* the exception that reached the caller, None if none

inputs == <<call, arg, payload, records0, timestamp, correlation_id, measurement_publisher, measurement_subject, ignore_keys, measurement_of_prefix>>
vars == <<inputs, records, stack, status, result, err>>

Frame(p) == [payload |-> p, i |-> 1]

InitFlatten ==
  /\ call = "create_record_recursive"
  /\ arg = PyNone
  /\ payload \in Payloads
  /\ \E c \in Calls :
       /\ records0 = c.records
       /\ timestamp = c.timestamp
       /\ correlation_id = c.correlation_id
       /\ measurement_publisher = c.publisher
       /\ measurement_subject = c.subject
  /\ ignore_keys \in IgnoreLists
  /\ measurement_of_prefix \in Prefixes
  /\ records = records0
  /\ stack = <<Frame(payload)>>

InitClassify ==
  /\ call = "get_record_type"
  /\ arg \in Args
  /\ payload = PyNone
  /\ records0 = <<>>
  /\ timestamp = ""
  /\ correlation_id = None
  /\ measurement_publisher = ""
  /\ measurement_subject = ""
  /\ ignore_keys = None
  /\ measurement_of_prefix = None
  /\ records = <<>>
  /\ stack = <<>>

Init ==
  /\ InitFlatten \/ InitClassify
  /\ status = "running"
  /\ result = None
  /\ err = None

\* ------------------------------------------------- create_record_recursive
Top == stack[Len(stack)]
AtKey == Top.i <= Len(Top.payload.items)
CurKey == Top.payload.items[Top.i].key
CurValue == Top.payload.items[Top.i].value

InList(x, list) == \E n \in 1..Len(list) : list[n] = x

\* faulty variant: the ignore list consulted by the outermost call only
NotIgnored_TopLevelOnly(key) ==
  IF ignore_keys = None THEN TRUE ELSE Len(stack) > 1 \/ ~InList(key, ignore_keys[1])

\* line 70: the key is processed
NotIgnored(key) == IF ignore_keys = None THEN TRUE ELSE ~InList(key, ignore_keys[1])

\* faulty variant: an empty prefix treated like no prefix
MeasurementOf_FalsyPrefix(key) ==
  IF measurement_of_prefix = None \/ measurement_of_prefix = Some("") THEN key
  ELSE measurement_of_prefix[1] \o "_" \o key

\* lines 88-90
MeasurementOf(key) ==
  IF measurement_of_prefix = None THEN key
  ELSE measurement_of_prefix[1] \o "_" \o key

Advance(stk) == [stk EXCEPT ![Len(stk)].i = @ + 1]
Pop(stk) == SubSeq(stk, 1, Len(stk) - 1)

InLoop ==
  /\ call = "create_record_recursive"
  /\ status = "running"
  /\ Truthy(Top.payload)

\* `return records`: the outermost call hands the list to the caller, a
\* nested call to the loop of its parent, which drops it and goes on
Return ==
  /\ IF Len(stack) = 1
     THEN /\ status' = "returned"
          /\ result' = Some(records)
          /\ stack' = <<>>
     ELSE /\ stack' = Advance(Pop(stack))
          /\ UNCHANGED <<status, result>>
  /\ UNCHANGED <<inputs, records, err>>

\* faulty variant: an empty payload reported as an error
ReturnEmpty_Raises ==
  /\ call = "create_record_recursive"
  /\ status = "running"
  /\ ~Truthy(Top.payload)
  /\ err' = Some([exc |-> "ValueError", msg |-> "empty payload"])
  /\ status' = "raised"
  /\ stack' = <<>>
  /\ UNCHANGED <<inputs, records, result>>

\* faulty variant: `return []` in place of `return records`
ReturnEmpty_NewList ==
  /\ call = "create_record_recursive"
  /\ status = "running"
  /\ ~Truthy(Top.payload)
  /\ IF Len(stack) = 1
     THEN /\ status' = "returned"
          /\ result' = Some(<<>>)
          /\ stack' = <<>>
     ELSE /\ stack' = Advance(Pop(stack))
          /\ UNCHANGED <<status, result>>
  /\ UNCHANGED <<inputs, records, err>>

\* lines 67-68
ReturnEmpty ==
  /\ call = "create_record_recursive"
  /\ status = "running"
  /\ ~Truthy(Top.payload)
  /\ Return

\* line 70, condition false
SkipIgnored ==
  /\ InLoop /\ AtKey
  /\ ~NotIgnored(CurKey)
  /\ stack' = Advance(stack)
  /\ UNCHANGED <<inputs, records, status, result, err>>

\* lines 71-81
Recurse ==
  /\ InLoop /\ AtKey
  /\ NotIgnored(CurKey)
  /\ IsInstance(CurValue, {"dict"})
  /\ stack' = Append(stack, Frame(CurValue))
  /\ UNCHANGED <<inputs, records, status, result, err>>

\* faulty variant: records.insert(0, ...) in place of records.append(...)
AppendRecord_Prepend ==
  /\ InLoop /\ AtKey
  /\ NotIgnored(CurKey)
  /\ ~IsInstance(CurValue, {"dict"})
  /\ ~get_record_type(CurValue).raised
  /\ records' = <<create_atomic_record(timestamp, measurement_subject, measurement_publisher, MeasurementOf(CurKey), CurValue, get_record_type(CurValue).member, correlation_id)>> \o records
  /\ stack' = Advance(stack)
  /\ UNCHANGED <<inputs, status, result, err>>

\* lines 83-95, get_record_type returns
AppendRecord ==
  /\ InLoop /\ AtKey
  /\ NotIgnored(CurKey)
  /\ ~IsInstance(CurValue, {"dict"})
  /\ ~get_record_type(CurValue).raised
  /\ records' = Append(records, create_atomic_record(timestamp, measurement_subject, measurement_publisher, MeasurementOf(CurKey), CurValue, get_record_type(CurValue).member, correlation_id))
  /\ stack' = Advance(stack)
  /\ UNCHANGED <<inputs, status, result, err>>

\* faulty variant: the classification error swallowed, the loop goes on
RaiseFromAppend_Swallowed ==
  /\ InLoop /\ AtKey
  /\ NotIgnored(CurKey)
  /\ ~IsInstance(CurValue, {"dict"})
  /\ get_record_type(CurValue).raised
  /\ stack' = Advance(stack)
  /\ UNCHANGED <<inputs, records, status, result, err>>

\* faulty variant: a nested call's error caught and raised again as another error
RaiseFromAppend_Wrapped ==
  /\ InLoop /\ AtKey
  /\ NotIgnored(CurKey)
  /\ ~IsInstance(CurValue, {"dict"})
  /\ get_record_type(CurValue).raised
  /\ err' = IF Len(stack) = 1
            THEN Some([exc |-> get_record_type(CurValue).exc, msg |-> get_record_type(CurValue).msg])
            ELSE Some([exc |-> "ValueError", msg |-> "nested payload failed"])
  /\ status' = "raised"
  /\ stack' = <<>>
  /\ UNCHANGED <<inputs, records, result>>

\* lines 83-95, get_record_type raises: no frame handles the exception
RaiseFromAppend ==
  /\ InLoop /\ AtKey
  /\ NotIgnored(CurKey)
  /\ ~IsInstance(CurValue, {"dict"})
  /\ get_record_type(CurValue).raised
  /\ err' = Some([exc |-> get_record_type(CurValue).exc, msg |-> get_record_type(CurValue).msg])
  /\ status' = "raised"
  /\ stack' = <<>>
  /\ UNCHANGED <<inputs, records, result>>

\* line 96
ReturnRecords ==
  /\ InLoop /\ ~AtKey
  /\ Return

\* ------------------------------------------------- get_record_type, called directly
Classify ==
  /\ call = "get_record_type"
  /\ status = "running"
  /\ IF get_record_type(arg).raised
     THEN /\ status' = "raised"
          /\ err' = Some([exc |-> get_record_type(arg).exc, msg |-> get_record_type(arg).msg])
          /\ result' = None
     ELSE /\ status' = "returned"
          /\ result' = Some(get_record_type(arg).member)
          /\ err' = None
  /\ UNCHANGED <<inputs, records, stack>>

\* ------------------------- create_record_recursive as one call, by recursion
Returned(recs) == [records |-> recs, raised |-> FALSE, exc |-> "", msg |-> ""]
Raised(recs, e) == [records |-> recs, raised |-> TRUE, exc |-> e.exc, msg |-> e.msg]

\* lines 69-96 from the key at the head of `items` on; `recs` is the list so far
RECURSIVE ForKeys(_, _)
ForKeys(items, recs) ==
  IF items = <<>> THEN Returned(recs)
  ELSE LET key == Head(items).key
           value == Head(items).value
       IN IF ~NotIgnored(key) THEN ForKeys(Tail(items), recs)
          ELSE IF IsInstance(value, {"dict"}) THEN
            LET inner == IF ~Truthy(value) THEN Returned(recs) ELSE ForKeys(value.items, recs)
            IN IF inner.raised THEN inner ELSE ForKeys(Tail(items), inner.records)
          ELSE IF get_record_type(value).raised THEN Raised(recs, get_record_type(value))
          ELSE ForKeys(Tail(items), Append(recs, create_atomic_record(timestamp, measurement_subject, measurement_publisher, MeasurementOf(key), value, get_record_type(value).member, correlation_id)))

create_record_recursive(p, recs) ==
  IF ~Truthy(p) THEN Returned(recs) ELSE ForKeys(p.items, recs)

Next ==
  \/ ReturnEmpty
  \/ SkipIgnored
  \/ Recurse
  \/ AppendRecord
  \/ RaiseFromAppend
  \/ ReturnRecords
  \/ Classify

Spec == Init /\ [][Next]_vars

\* ================================================================== claims
Flattening == call = "create_record_recursive"
Classifying == call = "get_record_type"
FlattenReturned == Flattening /\ status = "returned"
FlattenRaised == Flattening /\ status = "raised"

\* the records the call has added to the list it was given
New == SubSeq(records, Len(records0) + 1, Len(records))

IgnoreSet == IF ignore_keys = None THEN {} ELSE {ignore_keys[1][n] : n \in 1..Len(ignore_keys[1])}

\* the entries with a non-mapping value, depth first in key order, ignored keys left out
RECURSIVE PreOrder(_, _)
PreOrder(items, ign) ==
  IF items = <<>> THEN <<>>
  ELSE LET e == Head(items)
           rest == PreOrder(Tail(items), ign)
       IN IF e.key \in ign THEN rest
          ELSE IF e.value.type = "dict" THEN PreOrder(e.value.items, ign) \o rest
          ELSE <<e>> \o rest

LeafEntries == PreOrder(payload.items, IgnoreSet)
\* the value does not classify, as the classifier decides it
Fails(v) == v.type \notin {"str", "bool", "int", "float"} /\ ~(v.type = "list" /\ Len(v.items) = 2 /\ \A n \in 1..2 : v.items[n].type \in {"int", "float", "bool"})
FailingLeaves == {n \in 1..Len(LeafEntries) : Fails(LeafEntries[n].value)}
FirstFailing == CHOOSE n \in FailingLeaves : \A m \in FailingLeaves : n <= m

NameFor(key) == IF measurement_of_prefix = None THEN key ELSE measurement_of_prefix[1] \o "_" \o key

\* the entries without the ignored keys and their subtrees, at every depth
RECURSIVE Strip(_, _)
Strip(items, ign) ==
  IF items = <<>> THEN <<>>
  ELSE LET e == Head(items)
           rest == Strip(Tail(items), ign)
       IN IF e.key \in ign THEN rest
          ELSE IF e.value.type = "dict" THEN <<Entry(e.key, PyDict(Strip(e.value.items, ign)))>> \o rest
          ELSE <<e>> \o rest

StrippedPayload == IF payload.type = "dict" THEN PyDict(Strip(payload.items, IgnoreSet)) ELSE payload

HasNestedMapping == \E n \in 1..Len(payload.items) : payload.items[n].value.type = "dict" /\ payload.items[n].value.items # <<>>

\* ---------------------------------------------------------------------- C1
\* C1 as stated: after a failed call the caller holds no record of that call,
\* also not in the records list it passed in.
C1_NoPartialList == FlattenRaised => records = records0

\* C1 as amended: a call returns only when every non-ignored leaf classified,
\* and then the whole sequence; when one fails the call raises and returns
\* nothing, and the list passed in keeps the records of the leaves before the
\* first failing one.
C1_FailFast ==
  /\ FlattenReturned =>
       /\ FailingLeaves = {}
       /\ err = None
       /\ result = Some(records)
       /\ Len(New) = Len(LeafEntries)
  /\ FlattenRaised =>
       /\ FailingLeaves # {}
       /\ err # None
       /\ result = None
       /\ Len(New) = FirstFailing - 1
       /\ SubSeq(records, 1, Len(records0)) = records0

C1_Witness == FlattenRaised /\ records0 # <<>> /\ Len(New) >= 1 /\ HasNestedMapping

\* ---------------------------------------------------------------------- C2
\* C2: the outcome of a call (list, return value, error) is the outcome of the
\* call on the payload with every ignored key and its subtree removed at every
\* depth, and no record is named after an ignored key.
C2_IgnoreExclusion ==
  (Flattening /\ status # "running") =>
    LET r == create_record_recursive(StrippedPayload, records0)
    IN /\ records = r.records
       /\ (status = "raised") = r.raised
       /\ r.raised => err = Some([exc |-> r.exc, msg |-> r.msg]) /\ result = None
       /\ ~r.raised => err = None /\ result = Some(r.records)
       /\ \A n \in 1..Len(New) : \A k \in IgnoreSet : New[n].measurement_of # NameFor(k)

\* an ignored key that holds a mapping with a leaf that does not classify, and records beside it
C2_Witness ==
  /\ FlattenReturned
  /\ Len(New) >= 1
  /\ \E n \in 1..Len(payload.items) :
       /\ payload.items[n].key \in IgnoreSet
       /\ payload.items[n].value.type = "dict"
       /\ \E m \in 1..Len(payload.items[n].value.items) : Fails(payload.items[n].value.items[m].value)

\* ---------------------------------------------------------------------- C3
\* C3: when the call returns, the records it added are one per non-ignored
\* non-mapping value, in depth-first pre-order of the keys.
C3_FlatteningOrder ==
  FlattenReturned =>
    /\ Len(New) = Len(LeafEntries)
    /\ \A n \in 1..Len(New) :
         /\ New[n].measurement_of = NameFor(LeafEntries[n].key)
         /\ New[n].measurement_value = LeafEntries[n].value

\* {"a": 1, "b": {"c": 2, "d": 3}} gives the records of a, c, d in that order
C3_Witness ==
  /\ FlattenReturned
  /\ measurement_of_prefix = None
  /\ Len(payload.items) = 2
  /\ payload.items[2].value.type = "dict"
  /\ Len(New) = 3
  /\ <<New[1].measurement_of, New[2].measurement_of, New[3].measurement_of>> = <<"a", "c", "d">>
  /\ <<New[1].measurement_value.lit, New[2].measurement_value.lit, New[3].measurement_value.lit>> = <<"1", "2", "3">>

\* ---------------------------------------------------------------------- C4
\* C4: get_record_type gives STRING for a str, BOOLEAN for a bool and NUMBER
\* for an int or float that is no bool, and each record's measurement_data_type
\* is the string form of the tag of its measurement_value.
C4_ScalarPrecedence ==
  /\ (Classifying /\ status # "running") =>
       /\ arg.type = "str" => result = Some("STRING")
       /\ arg.type = "bool" => result = Some("BOOLEAN")
       /\ arg.type \in {"int", "float"} => result = Some("NUMBER")
  /\ \A n \in 1..Len(records) :
       LET t == records[n].measurement_value.type
           d == records[n].measurement_data_type
       IN /\ t = "str" => d = "string"
          /\ t = "bool" => d = "boolean"
          /\ t \in {"int", "float"} => d = "number"
          /\ t = "list" => d = "geography"
          /\ t \in {"str", "bool", "int", "float", "list"}

C4_Witness ==
  /\ FlattenReturned
  /\ \E n \in 1..Len(New) : New[n].measurement_value = PyTrue /\ New[n].measurement_data_type = "boolean"
  /\ \E n \in 1..Len(New) : New[n].measurement_value = PyInt /\ New[n].measurement_data_type = "number"

\* ---------------------------------------------------------------------- C5
\* C5: a list is GEOGRAPHY exactly when it has two elements, both int or float
\* and no bool; every other list fails and yields no tag.
C5_CoordinatePair ==
  (Classifying /\ status # "running" /\ arg.type = "list") =>
    LET pair == Len(arg.items) = 2 /\ \A n \in 1..Len(arg.items) : arg.items[n].type \in {"int", "float"}
    IN /\ pair => status = "returned" /\ result = Some("GEOGRAPHY")
       /\ ~pair => status = "raised" /\ result = None /\ err # None

\* ---------------------------------------------------------------------- C6
Unrecognized(v) == v.type \notin {"str", "bool", "int", "float", "list"}

\* C6 as stated: the error for an unrecognized value is of another kind than
\* the error for a list that is no coordinate pair.
C6_DistinctKinds ==
  (Classifying /\ status # "running" /\ Unrecognized(arg)) =>
    /\ status = "raised"
    /\ err[1].exc # get_record_type(PyList(<<>>)).exc

\* C6 as amended: an unrecognized value raises TypeError "Unknown payload
\* type: <type name>", a list that is no coordinate pair raises the same
\* TypeError with another message, and the error of the first failing leaf
\* reaches the caller of create_record_recursive as raised, from every depth.
C6_Unrecognized ==
  /\ (Classifying /\ status # "running" /\ Unrecognized(arg)) =>
       /\ status = "raised"
       /\ err = Some([exc |-> "TypeError", msg |-> "Unknown payload type: " \o arg.type])
  /\ (Classifying /\ status = "raised" /\ arg.type = "list") =>
       /\ err[1].exc = "TypeError"
       /\ err[1].msg = "List is not a valid coordinate pair: " \o Str(arg)
  /\ FlattenRaised =>
       LET v == LeafEntries[FirstFailing].value
       IN /\ FailingLeaves # {}
          /\ err[1].exc = "TypeError"
          /\ Unrecognized(v) => err[1].msg = "Unknown payload type: " \o v.type
          /\ v.type = "list" => err[1].msg = "List is not a valid coordinate pair: " \o Str(v)

\* the failing value sits in a nested mapping
C6_Witness ==
  /\ FlattenRaised
  /\ err[1].msg = "Unknown payload type: NoneType"
  /\ \A n \in 1..Len(payload.items) : payload.items[n].value.type # "NoneType"

C8_PrefixApplication ==
  /\ \A n \in 1..Len(New) :
       /\ measurement_of_prefix = None => New[n].measurement_of = LeafEntries[n].key
       /\ measurement_of_prefix # None => New[n].measurement_of = measurement_of_prefix[1] \o "_" \o LeafEntries[n].key
  /\ \A n, m \in 1..Len(New) :
       LeafEntries[n].key = LeafEntries[m].key => New[n].measurement_of = New[m].measurement_of

\* {a: leaf, x: {a: leaf}} under prefix "p"
C8_Witness ==
  /\ FlattenReturned
  /\ measurement_of_prefix = Some("p")
  /\ HasNestedMapping
  /\ Len(New) = 2
  /\ New[1].measurement_of = "p_a"
  /\ New[2].measurement_of = "p_a"

\* ---------------------------------------------------------------------- C9
\* C9: every record the call adds carries the call's timestamp, publisher,
\* subject and correlation id, and the raw value of its leaf.
C9_MetadataRoundTrip ==
  \A n \in 1..Len(New) :
    /\ New[n].timestamp = timestamp
    /\ New[n].measurement_publisher = measurement_publisher
    /\ New[n].measurement_subject = measurement_subject
    /\ New[n].correlation_id = correlation_id
    /\ New[n].measurement_value = LeafEntries[n].value

C9_Witness ==
  /\ FlattenReturned
  /\ HasNestedMapping
  /\ Len(New) = 2
  /\ records0 # <<>>
  /\ New[1].correlation_id = New[2].correlation_id
  /\ New[1].timestamp # records[1].timestamp

====
